---- MODULE Spec2Model ----
(***************************************************************************)
(* Dependency tracker: the SQL-backed Dependency Store (models.py,         *)
(* service.py), the tool layer that calls it (main.py) and the in-memory   *)
(* Health & Staleness Analyzer (stats.py).                                 *)
(*                                                                         *)
(* Values.  Python values are records so that values of different Python   *)
(* types can be compared: None is [none |-> TRUE], a str is [str |-> s]    *)
(* with s a sequence of one-character strings, a datetime is [dt |-> t]    *)
(* with t an integer number of clock ticks, the text produced by           *)
(* datetime.isoformat() is [iso |-> t], a uuid string is [uuid |-> n], a   *)
(* list is [list |-> s] and a bool is [bool |-> b].                        *)
(***************************************************************************)
EXTENDS Integers, Sequences, FiniteSets, TLC

VARIABLES
    db,            \* rows of the "dependencies" table, in insertion order
    clock,         \* what datetime.utcnow() returns, in ticks
    result,        \* the last completed call: its name, arguments and outcome
    req,           \* create_sample_dependency requests in flight
    returned,      \* dicts returned so far by successful create_dependency calls
    DEPENDENCIES   \* the in-memory list of dicts stats.py reads

vars == <<db, clock, result, req, returned, DEPENDENCIES>>

----------------------------------------------------------------------------
(* Bounds *)

MaxRows == 2
MaxClock == 1
MaxReqs == 2
MaxDeps == 2
MaxThreshold == 2

----------------------------------------------------------------------------
(* Python values *)

None == [none |-> TRUE]
Str(s) == [str |-> s]
Dt(t) == [dt |-> t]
Iso(t) == [iso |-> t]
Uuid(n) == [uuid |-> n]
List(s) == [list |-> s]
Bool(b) == [bool |-> b]

\* Python truthiness of an optional str / datetime: None and "" are falsy.
Truthy(v) == v # None /\ v # Str(<<>>)

isoformat(d) == Iso(d.dt)
fromisoformat(s) == Dt(s.iso)

\* kwargs.get(key): None when the key was not passed.
KwGet(kwargs, key) == IF key \in DOMAIN kwargs THEN kwargs[key] ELSE None

\* The elements s[i] with keep[i] true, in the order of s.
Filter(s, keep) ==
    LET F[i \in 0..Len(s)] ==
            IF i = 0 THEN <<>>
            ELSE IF keep[i] THEN Append(F[i - 1], s[i]) ELSE F[i - 1]
    IN  F[Len(s)]

----------------------------------------------------------------------------
(* models.py: the Dependency row and its dict form *)

to_dict(row) ==
    [id |-> row.id,
     name |-> row.name,
     testVersion |-> row.test_version,
     prodVersion |-> row.prod_version,
     testLastUpdated |->
        IF row.test_last_updated # None THEN isoformat(row.test_last_updated) ELSE None,
     productionLastUpdated |->
        IF row.production_last_updated # None
        THEN isoformat(row.production_last_updated) ELSE None,
     testNextUpdate |->
        IF row.test_next_update # None THEN isoformat(row.test_next_update) ELSE None,
     productionNextUpdate |->
        IF row.production_next_update # None
        THEN isoformat(row.production_next_update) ELSE None,
     sourceUrl |-> row.source_url,
     changelogUrl |-> row.changelog_url,
     homepageUrl |-> row.homepage_url,
     createdAt |-> IF row.created_at # None THEN isoformat(row.created_at) ELSE None,
     updatedAt |-> IF row.updated_at # None THEN isoformat(row.updated_at) ELSE None]

\* [dep.to_dict() for dep in dependencies]
ToDicts(rows) == [i \in 1..Len(rows) |-> to_dict(rows[i])]

\* default=lambda: str(uuid.uuid4()): an id no row of the table has.
uuid4(rows) == Uuid(Len(rows) + 1)

\* Dependency(...) as the INSERT sees it: the column defaults fill id,
\* created_at (utcnow read at c) and updated_at (utcnow read again, at u).
Dependency(rows, name, test_version, kwargs, c, u) ==
    [id |-> uuid4(rows),
     name |-> name,
     test_version |-> test_version,
     prod_version |-> KwGet(kwargs, "prod_version"),
     test_last_updated |-> KwGet(kwargs, "test_last_updated"),
     production_last_updated |-> KwGet(kwargs, "production_last_updated"),
     test_next_update |-> KwGet(kwargs, "test_next_update"),
     production_next_update |-> KwGet(kwargs, "production_next_update"),
     source_url |-> KwGet(kwargs, "source_url"),
     changelog_url |-> KwGet(kwargs, "changelog_url"),
     homepage_url |-> KwGet(kwargs, "homepage_url"),
     created_at |-> Dt(c),
     updated_at |-> Dt(u)]

\* nullable=False on name and test_version.
NotNullViolation(row) == row.name = None \/ row.test_version = None

UniqueViolation_dropped(rows, row) == FALSE

\* unique=True on name.
UniqueViolation(rows, row) == \E i \in 1..Len(rows) : rows[i].name = row.name

IntegrityError(msg) == [type |-> "IntegrityError", msg |-> msg]
NotNullMsg == "NOT NULL constraint failed"
UniqueMsg == "UNIQUE constraint failed: dependencies.name"

----------------------------------------------------------------------------
(* service.py: DependencyService *)

get_all_dependencies(rows) == List(ToDicts(rows))

\* .filter(...).first(): the first matching row, or None.
First(rows, match) ==
    LET hits == Filter(rows, match)
    IN  IF hits = <<>> THEN None ELSE to_dict(hits[1])

get_dependency_by_id(rows, id) ==
    First(rows, [i \in 1..Len(rows) |-> rows[i].id = id])

get_dependency_by_name_any(rows, name) ==
    First(rows, [i \in 1..Len(rows) |-> TRUE])

get_dependency_by_name(rows, name) ==
    First(rows, [i \in 1..Len(rows) |-> rows[i].name = name])

dependency_exists(rows, name) == \E i \in 1..Len(rows) : rows[i].name = name

create_dependency_kept(rows, name, test_version, kwargs, c, u) ==
    LET row == Dependency(rows, name, test_version, kwargs, c, u)
    IN  IF NotNullViolation(row)
        THEN [rows |-> rows, ret |-> None, raised |-> IntegrityError(NotNullMsg)]
        ELSE IF UniqueViolation(rows, row)
        THEN [rows |-> Append(rows, row), ret |-> None, raised |-> IntegrityError(UniqueMsg)]
        ELSE [rows |-> Append(rows, row), ret |-> to_dict(row), raised |-> None]

create_dependency_merged(rows, name, test_version, kwargs, c, u) ==
    LET row == Dependency(rows, name, test_version, kwargs, c, u)
    IN  IF NotNullViolation(row)
        THEN [rows |-> rows, ret |-> None, raised |-> IntegrityError(NotNullMsg)]
        ELSE IF UniqueViolation(rows, row)
        THEN [rows |-> [i \in 1..Len(rows) |->
                           IF rows[i].name = row.name THEN row ELSE rows[i]],
              ret |-> to_dict(row), raised |-> None]
        ELSE [rows |-> Append(rows, row), ret |-> to_dict(row), raised |-> None]

\* session.add + session.commit + session.refresh + to_dict, or the exception
\* commit raises; the finally-close discards the failed transaction.
create_dependency(rows, name, test_version, kwargs, c, u) ==
    LET row == Dependency(rows, name, test_version, kwargs, c, u)
    IN  IF NotNullViolation(row)
        THEN [rows |-> rows, ret |-> None, raised |-> IntegrityError(NotNullMsg)]
        ELSE IF UniqueViolation(rows, row)
        THEN [rows |-> rows, ret |-> None, raised |-> IntegrityError(UniqueMsg)]
        ELSE [rows |-> Append(rows, row), ret |-> to_dict(row), raised |-> None]

\* ASCII lower-casing, as lower() of the database does.
Lower(ch) == CASE ch = "A" -> "a" [] ch = "B" -> "b" [] OTHER -> ch

lower(s) == [i \in 1..Len(s) |-> Lower(s[i])]

\* SQL LIKE: "%" matches any run of characters, "_" any one character,
\* every other character itself.
RECURSIVE Like(_, _)
Like(pat, s) ==
    IF pat = <<>> THEN s = <<>>
    ELSE IF Head(pat) = "%"
         THEN Like(Tail(pat), s) \/ (s # <<>> /\ Like(pat, Tail(s)))
         ELSE /\ s # <<>>
              /\ (Head(pat) = "_" \/ Head(pat) = Head(s))
              /\ Like(Tail(pat), Tail(s))

\* Dependency.name.ilike(f"%{query}%"): lower(name) LIKE lower(pattern).
ilike(name, pattern) == Like(lower(pattern), lower(name.str))

search_dependencies(rows, query) ==
    LET match == [i \in 1..Len(rows) |->
                     ilike(rows[i].name, <<"%">> \o query.str \o <<"%">>)]
    IN  List(ToDicts(Filter(rows, match)))

\* SQL comparison of a DateTime column with a bound value: not true when
\* the column is NULL.
SqlGe(col, v) == col # None /\ col.dt >= v.dt
SqlLe_strict(col, v) == col # None /\ col.dt < v.dt
SqlLe(col, v) == col # None /\ col.dt <= v.dt

find_updated_between(rows, start, end) ==
    LET match == [i \in 1..Len(rows) |->
            \/ /\ SqlGe(rows[i].test_last_updated, start)
               /\ SqlLe(rows[i].test_last_updated, end)
            \/ /\ SqlGe(rows[i].production_last_updated, start)
               /\ SqlLe(rows[i].production_last_updated, end)]
    IN  List(ToDicts(Filter(rows, match)))

find_next_update_between(rows, start, end) ==
    LET match == [i \in 1..Len(rows) |->
            \/ /\ SqlGe(rows[i].test_next_update, start)
               /\ SqlLe(rows[i].test_next_update, end)
            \/ /\ SqlGe(rows[i].production_next_update, start)
               /\ SqlLe(rows[i].production_next_update, end)]
    IN  List(ToDicts(Filter(rows, match)))

----------------------------------------------------------------------------
(* stats.py: the analyzer over the in-memory list DEPENDENCIES *)

\* Clock ticks in a day: timedelta(days=1) and timedelta.days.
TicksPerDay == 2
RecentDays == 30

IntVal(n) == [int |-> n]

\* (a - b).days: whole days, rounded down.
Days(a, b) == (a.dt - b.dt) \div TicksPerDay

\* now - timedelta(days=n)
MinusDays(now, n) == Dt(now.dt - n * TicksPerDay)

DtMin(a, b) == IF a.dt <= b.dt THEN a ELSE b

\* max(test_date, prod_date)
DtMax(a, b) == IF a.dt >= b.dt THEN a ELSE b

\* The most recent update date (either test or prod), None without one.
MostRecentUpdate(dep) ==
    LET test_updated == dep.testLastUpdated
        prod_updated == dep.productionLastUpdated
    IN  IF Truthy(test_updated) /\ Truthy(prod_updated)
        THEN DtMax(fromisoformat(test_updated), fromisoformat(prod_updated))
        ELSE IF Truthy(test_updated) THEN fromisoformat(test_updated)
        ELSE IF Truthy(prod_updated) THEN fromisoformat(prod_updated)
        ELSE None

CreatedDate_ignored(dep) == None

\* "if no update dates, use created date"
CreatedDate(dep) ==
    LET created == dep.createdAt
    IN  IF Truthy(created) THEN fromisoformat(created) ELSE None

LastUpdated(dep) ==
    IF MostRecentUpdate(dep) = None THEN CreatedDate(dep) ELSE MostRecentUpdate(dep)

\* One pass of the loop of get_stale_dependencies.
StaleStep(acc, dep, now, threshold_date) ==
    LET last_updated == LastUpdated(dep)
    IN  IF last_updated # None /\ last_updated.dt < threshold_date.dt
        THEN LET days_old == Days(now, last_updated)
             IN  [stale_deps |-> Append(acc.stale_deps, dep.name),
                  oldest_dep |-> IF days_old > acc.oldest_days THEN dep.name
                                                               ELSE acc.oldest_dep,
                  oldest_days |-> IF days_old > acc.oldest_days THEN days_old
                                                                ELSE acc.oldest_days]
        ELSE acc

get_stale_dependencies(deps, now, days_threshold) ==
    LET threshold_date == MinusDays(now, days_threshold)
        Loop[i \in 0..Len(deps)] ==
            IF i = 0 THEN [stale_deps |-> <<>>, oldest_dep |-> None, oldest_days |-> 0]
            ELSE StaleStep(Loop[i - 1], deps[i], now, threshold_date)
        end == Loop[Len(deps)]
    IN  [staleDependencies |-> end.stale_deps,
         staleCount |-> Len(end.stale_deps),
         daysThreshold |-> days_threshold,
         oldestDependency |-> end.oldest_dep,
         oldestDependencyDays |-> end.oldest_days]

\* The names of the dicts deps[i] with keep[i] true, in list order.
NamesWhere(deps, keep) ==
    LET hits == Filter(deps, keep)
    IN  [k \in 1..Len(hits) |-> hits[k].name]

HasDrift_any(dep) == dep.testVersion # dep.prodVersion

\* prod_version and test_version != prod_version
HasDrift(dep) == Truthy(dep.prodVersion) /\ dep.testVersion # dep.prodVersion

IsOverdue_inclusive(dep, now) ==
    \/ Truthy(dep.testNextUpdate) /\ fromisoformat(dep.testNextUpdate).dt <= now.dt
    \/ /\ Truthy(dep.productionNextUpdate)
       /\ fromisoformat(dep.productionNextUpdate).dt <= now.dt

\* is_overdue: a next-update date that is set and strictly before now.
IsOverdue(dep, now) ==
    \/ Truthy(dep.testNextUpdate) /\ fromisoformat(dep.testNextUpdate).dt < now.dt
    \/ /\ Truthy(dep.productionNextUpdate)
       /\ fromisoformat(dep.productionNextUpdate).dt < now.dt

IsTestOnly_null(dep) == dep.prodVersion = None

\* not prod_version
IsTestOnly(dep) == ~Truthy(dep.prodVersion)

IsRecent_strict(dep, thirty_days_ago) ==
    \/ /\ Truthy(dep.testLastUpdated)
       /\ fromisoformat(dep.testLastUpdated).dt > thirty_days_ago.dt
    \/ /\ Truthy(dep.productionLastUpdated)
       /\ fromisoformat(dep.productionLastUpdated).dt > thirty_days_ago.dt

\* is_recent: a last-updated date that is set and not before thirty_days_ago.
IsRecent(dep, thirty_days_ago) ==
    \/ /\ Truthy(dep.testLastUpdated)
       /\ fromisoformat(dep.testLastUpdated).dt >= thirty_days_ago.dt
    \/ /\ Truthy(dep.productionLastUpdated)
       /\ fromisoformat(dep.productionLastUpdated).dt >= thirty_days_ago.dt

get_dependency_health_overview(deps, now) ==
    LET thirty_days_ago == MinusDays(now, RecentDays)
        version_drift_deps ==
            NamesWhere(deps, [i \in 1..Len(deps) |-> HasDrift(deps[i])])
        overdue_deps ==
            NamesWhere(deps, [i \in 1..Len(deps) |-> IsOverdue(deps[i], now)])
        test_only_deps ==
            NamesWhere(deps, [i \in 1..Len(deps) |-> IsTestOnly(deps[i])])
        recently_updated_deps ==
            NamesWhere(deps, [i \in 1..Len(deps) |-> IsRecent(deps[i], thirty_days_ago)])
    IN  [totalCount |-> Len(deps),
         versionDriftCount |-> Len(version_drift_deps),
         versionDriftDependencies |-> version_drift_deps,
         overdueUpdatesCount |-> Len(overdue_deps),
         overdueUpdatesDependencies |-> overdue_deps,
         testOnlyCount |-> Len(test_only_deps),
         testOnlyDependencies |-> test_only_deps,
         recentlyUpdatedCount |-> Len(recently_updated_deps),
         recentlyUpdatedDependencies |-> recently_updated_deps]

----------------------------------------------------------------------------
(* Inputs *)

Names == {Str(<<"a", "b">>), Str(<<"A">>), Str(<<"a", "_">>)}
TestVersions == {Str(<<"1">>)}
ProdVersions == {None, Str(<<"2">>)}

\* The create_dependency calls made directly: each name with one
\* prod_version, "ab" with either, and one call without a name.
CreateArgs ==
    {[name |-> Str(<<"a", "b">>), test_version |-> Str(<<"1">>),
      kwargs |-> [prod_version |-> pv]] : pv \in ProdVersions}
    \cup {[name |-> Str(<<"A">>), test_version |-> Str(<<"1">>),
           kwargs |-> [prod_version |-> Str(<<"2">>)]],
          [name |-> Str(<<"a", "_">>), test_version |-> Str(<<"1">>),
           kwargs |-> [prod_version |-> None]],
          [name |-> None, test_version |-> Str(<<"1">>),
           kwargs |-> [prod_version |-> None]]}

MaxQueryLen == 1
QueryChars == {"a", "B", "_", "%"}
Queries == {Str(q) : q \in UNION {[1..n -> QueryChars] : n \in 0..MaxQueryLen}}

Ids == {Uuid(n) : n \in 1..(MaxRows + 1)}

Call(op, args, ret, raised) == [op |-> op, args |-> args, ret |-> ret, raised |-> raised]

Idle == [pc |-> "idle", name |-> None, test_version |-> None, prod_version |-> None,
         result |-> None]

----------------------------------------------------------------------------
(* The Store, called directly *)

Init ==
    /\ db = <<>>
    /\ clock = 0
    /\ result = Call("none", <<>>, None, None)
    /\ req = [r \in 1..MaxReqs |-> Idle]
    /\ returned = {}
    /\ DEPENDENCIES = <<>>

\* utcnow() moves on between calls.
Tick ==
    /\ clock < MaxClock
    /\ clock' = clock + 1
    /\ UNCHANGED <<db, result, req, returned, DEPENDENCIES>>

\* DependencyService.create_dependency; the two utcnow column defaults are
\* read at clock and at u >= clock.
CreateDependency(name, test_version, kwargs) ==
    \E u \in {clock, clock + 1} :
        LET out == create_dependency(db, name, test_version, kwargs, clock, u)
        IN  /\ u <= MaxClock
            /\ out.raised = None => Len(db) < MaxRows
            /\ db' = out.rows
            /\ clock' = u
            /\ result' = Call("create_dependency", <<name, test_version, kwargs>>,
                              out.ret, out.raised)
            /\ returned' = IF out.raised = None THEN returned \cup {out.ret} ELSE returned
            /\ UNCHANGED <<req, DEPENDENCIES>>

Read(op, args, ret) ==
    /\ result' = Call(op, args, ret, None)
    /\ UNCHANGED <<db, clock, req, returned, DEPENDENCIES>>

GetAllDependencies == Read("get_all_dependencies", <<>>, get_all_dependencies(db))

GetDependencyById(id) == Read("get_dependency_by_id", <<id>>, get_dependency_by_id(db, id))

GetDependencyByName(name) ==
    Read("get_dependency_by_name", <<name>>, get_dependency_by_name(db, name))

SearchDependencies(query) ==
    Read("search_dependencies", <<query>>, search_dependencies(db, query))

DependencyExists(name) ==
    Read("dependency_exists", <<name>>, Bool(dependency_exists(db, name)))

Next ==
    \/ Tick
    \/ \E a \in CreateArgs : CreateDependency(a.name, a.test_version, a.kwargs)
    \/ GetAllDependencies
    \/ \E id \in Ids : GetDependencyById(id)
    \/ \E name \in Names : GetDependencyByName(name)
    \/ \E query \in Queries : SearchDependencies(query)
    \/ \E name \in Names : DependencyExists(name)

Spec == Init /\ [][Next]_vars

----------------------------------------------------------------------------
(* main.py: the create_sample_dependency tool, one request per r.  Each    *)
(* request is two steps, the dependency_exists pre-check and the           *)
(* create_dependency call, and other requests may run between them.        *)

\* json.dumps(dependency) and json.dumps({"error": message}).
Ok(d) == [json |-> d]
Err(msg) == [error |-> msg]
AlreadyExistsMsg == "Dependency with name already exists"

IsOk(res) == "json" \in DOMAIN res

CreateSampleDependencyCheck(r, name, test_version, prod_version) ==
    /\ req[r].pc = "idle"
    /\ req' = [req EXCEPT ![r] =
                 IF dependency_exists(db, name)
                 THEN [pc |-> "done", name |-> name, test_version |-> test_version,
                       prod_version |-> prod_version, result |-> Err(AlreadyExistsMsg)]
                 ELSE [pc |-> "create", name |-> name, test_version |-> test_version,
                       prod_version |-> prod_version, result |-> None]]
    /\ UNCHANGED <<db, clock, result, returned, DEPENDENCIES>>

CreateSampleDependencyCreate(r) ==
    /\ req[r].pc = "create"
    /\ \E u \in {clock, clock + 1} :
          LET out == create_dependency(db, req[r].name, req[r].test_version,
                                       [prod_version |-> req[r].prod_version], clock, u)
          IN  /\ u <= MaxClock
              /\ out.raised = None => Len(db) < MaxRows
              /\ db' = out.rows
              /\ clock' = u
              /\ returned' = IF out.raised = None THEN returned \cup {out.ret}
                                                  ELSE returned
              /\ req' = [req EXCEPT ![r].pc = "done",
                                    ![r].result = IF out.raised = None
                                                  THEN Ok(out.ret)
                                                  ELSE Err(out.raised.msg)]
    /\ UNCHANGED <<result, DEPENDENCIES>>

RaceNext ==
    \/ Tick
    \/ \E r \in 1..MaxReqs, name \in Names, tv \in TestVersions, pv \in ProdVersions :
          CreateSampleDependencyCheck(r, name, tv, pv)
    \/ \E r \in 1..MaxReqs : CreateSampleDependencyCreate(r)

RaceSpec == Init /\ [][RaceNext]_vars

----------------------------------------------------------------------------
(* Claims about racing create requests (RaceSpec) *)

NamesUnique(rows) ==
    \A i, j \in 1..Len(rows) : rows[i].name = rows[j].name => i = j

Finished(name) == {r \in 1..MaxReqs : req[r].pc = "done" /\ req[r].name = name}

\* C1: under every interleaving of create requests no two rows have the same
\* name, and of the finished requests for one name exactly one added the row
\* and got the record back; every other one got an error result.
C1_UniqueNamesUnderRace ==
    /\ NamesUnique(db)
    /\ \A name \in Names :
          LET winners == {r \in Finished(name) : IsOk(req[r].result)}
          IN  Finished(name) # {} =>
                /\ Cardinality(winners) = 1
                /\ Cardinality({i \in 1..Len(db) : db[i].name = name}) = 1
                /\ \A r \in Finished(name) \ winners :
                       req[r].result \in {Err(AlreadyExistsMsg), Err(UniqueMsg)}

\* Two requests for one name both passed the pre-check; one inserted the row
\* and the other's insert was refused by the table.
C1_Witness ==
    \E r1, r2 \in 1..MaxReqs :
        /\ r1 # r2
        /\ req[r1].name = req[r2].name
        /\ req[r1].pc = "done" /\ IsOk(req[r1].result)
        /\ req[r2].pc = "done" /\ req[r2].result = Err(UniqueMsg)

----------------------------------------------------------------------------
(* The date-range scans over a table whose rows carry update timestamps    *)
(* (rows inserted by create_dependency with timestamp keyword arguments).  *)

Instants == {Dt(0), Dt(1)}
OptInstants == {None} \cup Instants

RangeKwargs ==
    {[test_last_updated |-> a, production_last_updated |-> b] :
        a \in OptInstants, b \in OptInstants}
    \cup {[test_next_update |-> a, production_next_update |-> b] :
        a \in OptInstants, b \in OptInstants}

\* The name of the i-th seeded row: i times "a".
NameAt(i) == Str([j \in 1..i |-> "a"])

RECURSIVE Seeded(_)
Seeded(ks) ==
    IF ks = <<>> THEN <<>>
    ELSE create_dependency(Seeded(SubSeq(ks, 1, Len(ks) - 1)), NameAt(Len(ks)),
                           Str(<<"1">>), ks[Len(ks)], 0, 0).rows

RangeInit ==
    /\ db \in {Seeded(ks) : ks \in UNION {[1..n -> RangeKwargs] : n \in 0..MaxRows}}
    /\ clock = 0
    /\ result = Call("none", <<>>, None, None)
    /\ req = [r \in 1..MaxReqs |-> Idle]
    /\ returned = {to_dict(db[i]) : i \in 1..Len(db)}
    /\ DEPENDENCIES = <<>>

FindUpdatedBetween(start, end) ==
    Read("find_updated_between", <<start, end>>, find_updated_between(db, start, end))

FindNextUpdateBetween(start, end) ==
    Read("find_next_update_between", <<start, end>>,
         find_next_update_between(db, start, end))

RangeNext ==
    \/ \E start \in Instants, end \in Instants : FindUpdatedBetween(start, end)
    \/ \E start \in Instants, end \in Instants : FindNextUpdateBetween(start, end)

RangeSpec == RangeInit /\ [][RangeNext]_vars

----------------------------------------------------------------------------
(* Claims about the date-range scans (RangeSpec) *)

\* t is a timestamp (not null) with start <= t <= end.
Within(t, start, end) == t # None /\ start.dt <= t.dt /\ t.dt <= end.dt

\* The number of dicts of a returned list that carry the id of row.
Occurrences(list, row) == Cardinality({k \in 1..Len(list) : list[k].id = row.id})

\* C5: find_updated_between(start, end) returns each row whose
\* test_last_updated or production_last_updated is non-null and lies in
\* [start, end], both ends included, exactly once, and no other row;
\* find_next_update_between does the same over test_next_update and
\* production_next_update. A row with both checked fields null is not returned.
C5_RangeScans ==
    /\ result.op = "find_updated_between" =>
          \A i \in 1..Len(db) :
              Occurrences(result.ret.list, db[i]) =
                  IF \/ Within(db[i].test_last_updated, result.args[1], result.args[2])
                     \/ Within(db[i].production_last_updated, result.args[1],
                               result.args[2])
                  THEN 1 ELSE 0
    /\ result.op = "find_next_update_between" =>
          \A i \in 1..Len(db) :
              Occurrences(result.ret.list, db[i]) =
                  IF \/ Within(db[i].test_next_update, result.args[1], result.args[2])
                     \/ Within(db[i].production_next_update, result.args[1],
                               result.args[2])
                  THEN 1 ELSE 0
    /\ result.op \in {"find_updated_between", "find_next_update_between"} =>
          /\ Len(result.ret.list) <= Len(db)
          /\ \A k \in 1..Len(result.ret.list) :
                 \E i \in 1..Len(db) : result.ret.list[k] = to_dict(db[i])

\* A scan with start = end returned one row, whose two checked fields both
\* equal that instant, and left another row out.
C5_Witness ==
    /\ result.op = "find_updated_between"
    /\ result.args[1] = result.args[2]
    /\ Len(db) = 2
    /\ Len(result.ret.list) = 1
    /\ \E i \in 1..Len(db) :
          /\ db[i].test_last_updated = result.args[1]
          /\ db[i].production_last_updated = result.args[2]
          /\ result.ret.list[1] = to_dict(db[i])

----------------------------------------------------------------------------
(* Claims about the Store called directly (Spec) *)

\* C2: create_dependency with a name some row already holds raises the
\* duplicate-name error (the IntegrityError of the UNIQUE constraint on name),
\* returns nothing and leaves the table as it was: the same rows, field for field.
C2_DuplicateCreateFails ==
    [][\A a \in CreateArgs :
          (/\ result'.op = "create_dependency"
           /\ dependency_exists(db, a.name)
           /\ CreateDependency(a.name, a.test_version, a.kwargs))
              => /\ db' = db
                 /\ result'.raised = IntegrityError(UniqueMsg)
                 /\ result'.ret = None]_vars

\* A create has just failed on a table of two rows, one of which holds the
\* name with another prod_version than the call gave.
C2_Witness ==
    /\ result.op = "create_dependency"
    /\ result.raised = IntegrityError(UniqueMsg)
    /\ Len(db) = 2
    /\ \E i \in 1..Len(db) :
          /\ db[i].name = result.args[1]
          /\ db[i].prod_version # result.args[3].prod_version

\* C3: every dict d a successful create_dependency returned is, from then on,
\* found by dependency_exists(d.name), and get_dependency_by_id(d.id) and
\* get_dependency_by_name(d.name) both return a dict equal to d in every field.
C3_CreateRoundTrip ==
    \A d \in returned :
        /\ dependency_exists(db, d.name)
        /\ get_dependency_by_id(db, d.id) = d
        /\ get_dependency_by_name(db, d.name) = d

\* Two creates have succeeded, the second with created_at # updated_at, and a
\* lookup by name has since returned the second record.
C3_Witness ==
    /\ Cardinality(returned) = 2
    /\ result.op = "get_dependency_by_name"
    /\ result.ret \in returned
    /\ result.ret.id = Uuid(2)
    /\ result.ret.createdAt # result.ret.updatedAt

\* name contains query as a substring, ignoring ASCII case, every character
\* of query standing for itself.
Contains(name, query) ==
    \E i \in 0..(Len(name) - Len(query)) :
        \A j \in 1..Len(query) : Lower(name[i + j]) = Lower(query[j])

LiteralSearch(rows, query) ==
    List(ToDicts(Filter(rows, [i \in 1..Len(rows) |->
                                Contains(rows[i].name.str, query.str)])))

\* C4: search_dependencies(q) returns exactly the records whose name contains
\* q as a case-insensitive substring, every character of q taken literally.
C4_SearchLiteralSubstring ==
    result.op = "search_dependencies" => result.ret = LiteralSearch(db, result.args[1])

----------------------------------------------------------------------------
(* The analyzer: get_stale_dependencies over an in-memory list (StaleSpec) *)

\* A dict of DEPENDENCIES, with the keys of to_dict; the i-th has name NameAt(i).
Dep(i, tv, pv, tlu, plu, tnu, pnu, created) ==
    [id |-> Uuid(i), name |-> NameAt(i), testVersion |-> tv, prodVersion |-> pv,
     testLastUpdated |-> tlu, productionLastUpdated |-> plu,
     testNextUpdate |-> tnu, productionNextUpdate |-> pnu,
     sourceUrl |-> None, changelogUrl |-> None, homepageUrl |-> None,
     createdAt |-> created, updatedAt |-> created]

OptIso(ticks) == {None} \cup {Iso(t) : t \in ticks}

StaleNows == {2 * TicksPerDay, 2 * TicksPerDay + 1}
StaleTicks == {0, 1, 2 * TicksPerDay - 1, 2 * TicksPerDay}

\* Update timestamps with a fixed creation date, or no update timestamp and
\* any creation date (or none).
StaleProfiles ==
    {[tlu |-> a, plu |-> b, created |-> Iso(0)] :
        a \in OptIso(StaleTicks), b \in OptIso(StaleTicks)}
    \cup {[tlu |-> None, plu |-> None, created |-> c] : c \in OptIso(StaleTicks)}

StaleDep(i, p) == Dep(i, Str(<<"1">>), Str(<<"1">>), p.tlu, p.plu, None, None, p.created)

StaleInit ==
    /\ DEPENDENCIES \in
          {[i \in 1..Len(ps) |-> StaleDep(i, ps[i])] :
              ps \in UNION {[1..n -> StaleProfiles] : n \in 0..MaxDeps}}
    /\ clock \in StaleNows
    /\ db = <<>>
    /\ result = Call("none", <<>>, None, None)
    /\ req = [r \in 1..MaxReqs |-> Idle]
    /\ returned = {}

\* get_stale_dependencies(days_threshold), with now = utcnow() read once.
GetStaleDependencies(days_threshold) ==
    /\ result' = Call("get_stale_dependencies", <<IntVal(days_threshold)>>,
                      get_stale_dependencies(DEPENDENCIES, Dt(clock), days_threshold),
                      None)
    /\ UNCHANGED <<db, clock, req, returned, DEPENDENCIES>>

StaleNext == \E days_threshold \in 0..MaxThreshold : GetStaleDependencies(days_threshold)

StaleSpec == StaleInit /\ [][StaleNext]_vars

----------------------------------------------------------------------------
(* Claims about get_stale_dependencies (StaleSpec) *)

StaleCall == result.op = "get_stale_dependencies"

\* The instant now - daysThreshold days of the last call, in ticks.
ThresholdTick == clock - result.args[1].int * TicksPerDay

NoUpdates(dep) == dep.testLastUpdated = None /\ dep.productionLastUpdated = None

\* The i-th record is in the returned stale list.
InStale(i) ==
    \E k \in 1..Len(result.ret.staleDependencies) :
        result.ret.staleDependencies[k] = DEPENDENCIES[i].name

\* Whole days from tick t to now.
AgeDays(t) == (clock - t) \div TicksPerDay

\* The later of the two last-updated timestamps, or the one present.
LaterUpdate(dep) ==
    IF dep.testLastUpdated # None /\ dep.productionLastUpdated # None
    THEN IF dep.testLastUpdated.iso >= dep.productionLastUpdated.iso
         THEN dep.testLastUpdated.iso ELSE dep.productionLastUpdated.iso
    ELSE IF dep.testLastUpdated # None THEN dep.testLastUpdated.iso
    ELSE dep.productionLastUpdated.iso

\* The tick the age of a record is counted from: its later update, else its
\* creation date.
AgedFrom(dep) == IF NoUpdates(dep) THEN dep.createdAt.iso ELSE LaterUpdate(dep)

\* C6 as stated: a record with neither last-updated timestamp is reported
\* stale for every threshold, whatever its created_at.
C6_NoUpdateAlwaysStale ==
    StaleCall =>
        \A i \in 1..Len(DEPENDENCIES) :
            (NoUpdates(DEPENDENCIES[i]) /\ DEPENDENCIES[i].createdAt # None) => InStale(i)

\* C6 as amended: a record with neither last-updated timestamp is reported
\* stale exactly when it has a created_at strictly before now - daysThreshold
\* days; its age for ranking is then now - created_at in whole days.
C6_NoUpdateStaleByCreation ==
    StaleCall =>
        \A i \in 1..Len(DEPENDENCIES) :
            LET dep == DEPENDENCIES[i]
            IN  NoUpdates(dep) =>
                  /\ InStale(i) <=> (dep.createdAt # None /\ dep.createdAt.iso < ThresholdTick)
                  /\ InStale(i) =>
                        /\ result.ret.oldestDependencyDays >= AgeDays(dep.createdAt.iso)
                        /\ result.ret.oldestDependency = dep.name =>
                              result.ret.oldestDependencyDays = AgeDays(dep.createdAt.iso)

\* Of two records without update timestamps the one created two days ago is
\* stale and ranked oldest with age 2; the one created after the threshold
\* instant is not stale.
C6_Witness ==
    /\ StaleCall
    /\ Len(DEPENDENCIES) = 2
    /\ \A i \in 1..2 : NoUpdates(DEPENDENCIES[i]) /\ DEPENDENCIES[i].createdAt # None
    /\ InStale(1) /\ ~InStale(2)
    /\ result.ret.oldestDependency = DEPENDENCIES[1].name
    /\ result.ret.oldestDependencyDays = 2

\* C7: a record with at least one last-updated timestamp is in the stale list
\* iff the later of its timestamps (the single one when only one is present)
\* is strictly before now - daysThreshold days.
C7_StaleByLastUpdate ==
    StaleCall =>
        \A i \in 1..Len(DEPENDENCIES) :
            ~NoUpdates(DEPENDENCIES[i]) =>
                (InStale(i) <=> LaterUpdate(DEPENDENCIES[i]) < ThresholdTick)

\* One record has an old and a recent timestamp, the recent one exactly at the
\* threshold instant, and is not stale; another, with one old timestamp, is.
C7_Witness ==
    /\ StaleCall
    /\ Len(DEPENDENCIES) = 2
    /\ DEPENDENCIES[1].testLastUpdated # None
    /\ DEPENDENCIES[1].productionLastUpdated # None
    /\ DEPENDENCIES[1].testLastUpdated.iso < ThresholdTick
    /\ DEPENDENCIES[1].productionLastUpdated.iso = ThresholdTick
    /\ ~InStale(1)
    /\ DEPENDENCIES[2].testLastUpdated = None
    /\ DEPENDENCIES[2].productionLastUpdated # None
    /\ InStale(2)

\* C8: the oldest reported is the stale record of largest age in days, the
\* first of them in list order, with that age; it is a record of the stale
\* list whenever that list is not empty, and none with age 0 otherwise.
C8_OldestIsStalest ==
    StaleCall =>
        LET stale == {i \in 1..Len(DEPENDENCIES) : InStale(i)}
            Age(i) == AgeDays(AgedFrom(DEPENDENCIES[i]))
        IN  IF stale = {}
            THEN /\ result.ret.oldestDependency = None
                 /\ result.ret.oldestDependencyDays = 0
            ELSE \E i \in stale :
                    /\ result.ret.oldestDependency = DEPENDENCIES[i].name
                    /\ result.ret.oldestDependencyDays = Age(i)
                    /\ \A j \in stale : Age(j) <= Age(i) /\ (Age(j) = Age(i) => i <= j)

----------------------------------------------------------------------------
(* The analyzer: get_dependency_health_overview (HealthSpec) *)

HealthNows == {RecentDays * TicksPerDay + 1, RecentDays * TicksPerDay + 2}
LastTicks == {0, 1, 2}
NextTicks == {RecentDays * TicksPerDay, RecentDays * TicksPerDay + 1,
              RecentDays * TicksPerDay + 2}

\* Every pairing of versions without timestamps; drifting records with
\* next-update timestamps around now; test-only records with last-updated
\* timestamps around now - 30 days.
HealthProfiles ==
    {[tv |-> tv, pv |-> pv, tlu |-> None, plu |-> None, tnu |-> None, pnu |-> None] :
        tv \in {Str(<<"1">>), Str(<<"2">>)},
        pv \in {None, Str(<<>>), Str(<<" ">>), Str(<<"1">>), Str(<<"2">>)}}
    \cup {[tv |-> Str(<<"1">>), pv |-> Str(<<"2">>), tlu |-> None, plu |-> None,
           tnu |-> a, pnu |-> b] : a \in OptIso(NextTicks), b \in OptIso(NextTicks)}
    \cup {[tv |-> Str(<<"1">>), pv |-> None, tlu |-> a, plu |-> b,
           tnu |-> None, pnu |-> None] : a \in OptIso(LastTicks), b \in OptIso(LastTicks)}

HealthDep(i, p) == Dep(i, p.tv, p.pv, p.tlu, p.plu, p.tnu, p.pnu, Iso(0))

HealthInit ==
    /\ DEPENDENCIES \in
          {[i \in 1..Len(ps) |-> HealthDep(i, ps[i])] :
              ps \in UNION {[1..n -> HealthProfiles] : n \in 0..MaxDeps}}
    /\ clock \in HealthNows
    /\ db = <<>>
    /\ result = Call("none", <<>>, None, None)
    /\ req = [r \in 1..MaxReqs |-> Idle]
    /\ returned = {}

\* get_dependency_health_overview(), with now = utcnow() read once.
GetDependencyHealthOverview ==
    /\ result' = Call("get_dependency_health_overview", <<>>,
                      get_dependency_health_overview(DEPENDENCIES, Dt(clock)), None)
    /\ UNCHANGED <<db, clock, req, returned, DEPENDENCIES>>

HealthNext == GetDependencyHealthOverview

HealthSpec == HealthInit /\ [][HealthNext]_vars

----------------------------------------------------------------------------
(* Claims about get_dependency_health_overview (HealthSpec) *)

HealthCall == result.op = "get_dependency_health_overview"

\* How many times the name of the i-th record is in a list of names.
Times(list, i) == Cardinality({k \in 1..Len(list) : list[k] = DEPENDENCIES[i].name})

\* s without its leading and trailing spaces.
RECURSIVE Trim(_)
Trim(s) ==
    IF s = <<>> THEN s
    ELSE IF Head(s) = " " THEN Trim(Tail(s))
    ELSE IF s[Len(s)] = " " THEN Trim(SubSeq(s, 1, Len(s) - 1))
    ELSE s

\* C9 as stated: testOnly holds exactly the records whose prod_version is
\* null or empty after trimming whitespace.
C9_TestOnlyTrimmed ==
    HealthCall =>
        \A i \in 1..Len(DEPENDENCIES) :
            LET pv == DEPENDENCIES[i].prodVersion
            IN  Times(result.ret.testOnlyDependencies, i) =
                    IF pv = None \/ Trim(pv.str) = <<>> THEN 1 ELSE 0

\* C9 as amended: testOnly holds exactly the records whose prod_version is
\* null or the empty string, whatever their other fields, each once, and
\* testOnlyCount is the length of that list.
C9_TestOnlyNullOrEmpty ==
    HealthCall =>
        /\ \A i \in 1..Len(DEPENDENCIES) :
              LET pv == DEPENDENCIES[i].prodVersion
              IN  Times(result.ret.testOnlyDependencies, i) =
                      IF pv = None \/ pv = Str(<<>>) THEN 1 ELSE 0
        /\ result.ret.testOnlyCount = Len(result.ret.testOnlyDependencies)
        /\ result.ret.testOnlyCount =
              Cardinality({i \in 1..Len(DEPENDENCIES) :
                              DEPENDENCIES[i].prodVersion \in {None, Str(<<>>)}})

\* An overview of a record with prod_version "" and one with prod_version " ":
\* the first is test-only, the second is not.
C9_Witness ==
    /\ HealthCall
    /\ Len(DEPENDENCIES) = 2
    /\ DEPENDENCIES[1].prodVersion = Str(<<>>)
    /\ DEPENDENCIES[2].prodVersion = Str(<<" ">>)
    /\ result.ret.testOnlyDependencies = <<DEPENDENCIES[1].name>>
    /\ result.ret.testOnlyCount = 1

\* C10: versionDrift holds exactly the records whose prod_version is neither
\* null nor empty and is not the same string as test_version; a record with a
\* null prod_version is in testOnly and not in versionDrift; no record is in
\* both lists.
C10_VersionDrift ==
    HealthCall =>
        \A i \in 1..Len(DEPENDENCIES) :
            LET dep == DEPENDENCIES[i]
                drift == Times(result.ret.versionDriftDependencies, i)
                only == Times(result.ret.testOnlyDependencies, i)
            IN  /\ drift = IF /\ dep.prodVersion # None
                              /\ dep.prodVersion # Str(<<>>)
                              /\ dep.prodVersion.str # dep.testVersion.str
                           THEN 1 ELSE 0
                /\ dep.prodVersion = None => (only = 1 /\ drift = 0)
                /\ ~(drift > 0 /\ only > 0)

\* The overview of one record with test_version "1" and prod_version "2":
\* versionDriftCount 1 and testOnlyCount 0; and of a record with a null
\* prod_version next to a drifting one.
C10_Witness ==
    /\ HealthCall
    /\ Len(DEPENDENCIES) = 2
    /\ DEPENDENCIES[1].prodVersion = None
    /\ DEPENDENCIES[2].prodVersion = Str(<<"2">>)
    /\ DEPENDENCIES[2].testVersion = Str(<<"1">>)
    /\ result.ret.versionDriftCount = 1
    /\ result.ret.versionDriftDependencies = <<DEPENDENCIES[2].name>>
    /\ result.ret.testOnlyDependencies = <<DEPENDENCIES[1].name>>

\* t is a timestamp (not null) strictly before tick n.
Before(t, n) == t # None /\ t.iso < n

\* t is a timestamp (not null) at or after tick n.
NotBefore(t, n) == t # None /\ t.iso >= n

\* C11: the overdue list holds, once each, exactly the records with a non-null
\* test_next_update strictly before now or a non-null production_next_update
\* strictly before now; a next-update equal to now is not overdue and a record
\* with both fields null is never overdue; overdueUpdatesCount is the length
\* of the list.
C11_OverdueStrict ==
    HealthCall =>
        /\ \A i \in 1..Len(DEPENDENCIES) :
              LET dep == DEPENDENCIES[i]
              IN  Times(result.ret.overdueUpdatesDependencies, i) =
                      IF \/ Before(dep.testNextUpdate, clock)
                         \/ Before(dep.productionNextUpdate, clock)
                      THEN 1 ELSE 0
        /\ result.ret.overdueUpdatesCount = Len(result.ret.overdueUpdatesDependencies)

\* Of two records the first has both next-update fields before now and is
\* listed once; the second has one equal to now and one null and is not listed.
C11_Witness ==
    /\ HealthCall
    /\ Len(DEPENDENCIES) = 2
    /\ Before(DEPENDENCIES[1].testNextUpdate, clock)
    /\ Before(DEPENDENCIES[1].productionNextUpdate, clock)
    /\ DEPENDENCIES[2].testNextUpdate = Iso(clock)
    /\ DEPENDENCIES[2].productionNextUpdate = None
    /\ result.ret.overdueUpdatesDependencies = <<DEPENDENCIES[1].name>>
    /\ result.ret.overdueUpdatesCount = 1

\* C12: the recentlyUpdated list holds, once each, exactly the records with a
\* non-null test_last_updated or production_last_updated at or after
\* now - 30 days, a timestamp exactly 30 days before now included; and that
\* now is the one the overdue list of the same call was computed with.
C12_RecentlyUpdated ==
    HealthCall =>
        /\ \A i \in 1..Len(DEPENDENCIES) :
              LET dep == DEPENDENCIES[i]
                  thirty == clock - RecentDays * TicksPerDay
              IN  /\ Times(result.ret.recentlyUpdatedDependencies, i) =
                        IF \/ NotBefore(dep.testLastUpdated, thirty)
                           \/ NotBefore(dep.productionLastUpdated, thirty)
                        THEN 1 ELSE 0
                  /\ Times(result.ret.overdueUpdatesDependencies, i) > 0 <=>
                        \/ Before(dep.testNextUpdate, thirty + RecentDays * TicksPerDay)
                        \/ Before(dep.productionNextUpdate, thirty + RecentDays * TicksPerDay)
        /\ result.ret.recentlyUpdatedCount = Len(result.ret.recentlyUpdatedDependencies)

\* One record was last updated exactly 30 days before now (and, in the other
\* environment, earlier) and is listed as recent; an overdue record of the
\* same call, with no last-updated timestamp, is not.
C12_Witness ==
    /\ HealthCall
    /\ Len(DEPENDENCIES) = 2
    /\ DEPENDENCIES[1].testLastUpdated = Iso(clock - RecentDays * TicksPerDay)
    /\ Before(DEPENDENCIES[1].productionLastUpdated, clock - RecentDays * TicksPerDay)
    /\ Before(DEPENDENCIES[2].testNextUpdate, clock)
    /\ result.ret.recentlyUpdatedDependencies = <<DEPENDENCIES[1].name>>
    /\ result.ret.overdueUpdatesDependencies = <<DEPENDENCIES[2].name>>

----------------------------------------------------------------------------
(* create_dependency called with missing and empty required fields         *)
(* (CreateSpec)                                                            *)

\* name and test_version each missing (None), empty or set.
RequiredArgs ==
    {[name |-> n, test_version |-> tv, kwargs |-> [prod_version |-> None]] :
        n \in {None, Str(<<>>), Str(<<"a">>)},
        tv \in {None, Str(<<>>), Str(<<"1">>)}}

CreateNext ==
    \/ Tick
    \/ \E a \in RequiredArgs : CreateDependency(a.name, a.test_version, a.kwargs)
    \/ GetAllDependencies

CreateSpec == Init /\ [][CreateNext]_vars

\* A required field that is missing or empty.
Blank(v) == v = None \/ v = Str(<<>>)

\* C13: a create_dependency call whose name or test_version is missing or
\* empty fails with an error and returns nothing, and no row of the table has
\* a missing or empty name or test_version.
C13_BlankCreateRejected ==
    /\ (/\ result.op = "create_dependency"
        /\ Blank(result.args[1]) \/ Blank(result.args[2]))
           => (result.raised # None /\ result.ret = None)
    /\ \A i \in 1..Len(db) : ~Blank(db[i].name) /\ ~Blank(db[i].test_version)

----------------------------------------------------------------------------
(* main.py: the two date-range tools (DateToolSpec).  A date string is a   *)
(* str in miniature: one character "0" or "1" stands for the date part     *)
(* YYYY-MM-DD, one character "0" for the time part HH:MM:SS, and the       *)
(* character between them is the separator.                                *)

DateParts == {"0", "1"}
TimeParts == {"0"}
Separators == {"T", " ", "x"}

DateTexts ==
    {Str(<<d>>) : d \in DateParts}
    \cup {Str(<<d, sep, t>>) : d \in DateParts, sep \in Separators, t \in TimeParts}
    \cup {Str(<<>>), Str(<<"x">>)}

ValueError(text) == [type |-> "ValueError", msg |-> "Invalid isoformat string", value |-> text]

\* The instant of a date part at midnight.
Midnight(d) == IF d = "0" THEN Dt(0) ELSE Dt(1)

\* datetime.fromisoformat(text): a date part alone, or a date part, any one
\* character as separator and a time part; every other text raises ValueError.
datetime_fromisoformat(text) ==
    LET t == text.str
    IN  IF Len(t) = 1 /\ t[1] \in DateParts
        THEN [value |-> Midnight(t[1]), raised |-> None]
        ELSE IF Len(t) = 3 /\ t[1] \in DateParts /\ t[3] \in TimeParts
        THEN [value |-> Midnight(t[1]), raised |-> None]
        ELSE [value |-> None, raised |-> ValueError(text)]

\* f"Invalid date format: {str(e)}"
InvalidDateMsg(e) == [prefix |-> "Invalid date format", msg |-> e.msg, value |-> e.value]

\* What a date-range tool did: the text it returned and the arguments it
\* called the Store's scan with (None when the scan was not called).
ToolOutcome(text, scan) == [text |-> text, scan |-> scan]

find_updated_dependencies(rows, start_date, end_date) ==
    LET start == datetime_fromisoformat(start_date)
        end == datetime_fromisoformat(end_date)
    IN  IF start.raised # None
        THEN ToolOutcome(Err(InvalidDateMsg(start.raised)), None)
        ELSE IF end.raised # None
        THEN ToolOutcome(Err(InvalidDateMsg(end.raised)), None)
        ELSE ToolOutcome(Ok(find_updated_between(rows, start.value, end.value)),
                         List(<<start.value, end.value>>))

find_dependencies_with_planned_updates(rows, start_date, end_date) ==
    LET start == datetime_fromisoformat(start_date)
        end == datetime_fromisoformat(end_date)
    IN  IF start.raised # None
        THEN ToolOutcome(Err(InvalidDateMsg(start.raised)), None)
        ELSE IF end.raised # None
        THEN ToolOutcome(Err(InvalidDateMsg(end.raised)), None)
        ELSE ToolOutcome(Ok(find_next_update_between(rows, start.value, end.value)),
                         List(<<start.value, end.value>>))

\* Rows with one last-updated or one next-update timestamp.
DateToolKwargs ==
    {[test_last_updated |-> Dt(0)], [production_next_update |-> Dt(1)]}

DateToolInit ==
    /\ db \in {Seeded(ks) : ks \in UNION {[1..n -> DateToolKwargs] : n \in 0..MaxRows}}
    /\ clock = 0
    /\ result = Call("none", <<>>, None, None)
    /\ req = [r \in 1..MaxReqs |-> Idle]
    /\ returned = {to_dict(db[i]) : i \in 1..Len(db)}
    /\ DEPENDENCIES = <<>>

FindUpdatedDependencies(start_date, end_date) ==
    Read("find_updated_dependencies", <<start_date, end_date>>,
         find_updated_dependencies(db, start_date, end_date))

FindDependenciesWithPlannedUpdates(start_date, end_date) ==
    Read("find_dependencies_with_planned_updates", <<start_date, end_date>>,
         find_dependencies_with_planned_updates(db, start_date, end_date))

DateToolNext ==
    \/ \E start_date \in DateTexts, end_date \in DateTexts :
          FindUpdatedDependencies(start_date, end_date)
    \/ \E start_date \in DateTexts, end_date \in DateTexts :
          FindDependenciesWithPlannedUpdates(start_date, end_date)

DateToolSpec == DateToolInit /\ [][DateToolNext]_vars

----------------------------------------------------------------------------
(* Claims about the date-range tools (DateToolSpec) *)

DateToolCall ==
    result.op \in {"find_updated_dependencies", "find_dependencies_with_planned_updates"}

\* A valid ISO-8601 date-time in miniature: a date part alone, or a date
\* part and a time part separated by "T" (or by a space, as RFC 3339 allows).
Iso8601(text) ==
    LET t == text.str
    IN  \/ Len(t) = 1 /\ t[1] \in DateParts
        \/ Len(t) = 3 /\ t[1] \in DateParts /\ t[2] \in {"T", " "} /\ t[3] \in TimeParts

\* The instant a valid ISO-8601 text denotes.
Iso8601Value(text) == Midnight(text.str[1])

\* C14: a date-range tool called with a start_date or end_date that is not a
\* valid ISO-8601 date-time returns an error result that names an offending
\* value and does not call the Store's scan; called with two valid values it
\* calls the scan with exactly the two instants they denote and returns the
\* scan's result.
C14_InvalidDateRejected ==
    DateToolCall =>
        LET start_date == result.args[1]
            end_date == result.args[2]
            out == result.ret
        IN  IF Iso8601(start_date) /\ Iso8601(end_date)
            THEN /\ out.scan = List(<<Iso8601Value(start_date), Iso8601Value(end_date)>>)
                 /\ IsOk(out.text)
                 /\ result.raised = None
            ELSE /\ out.scan = None
                 /\ ~IsOk(out.text)
                 /\ out.text.error.value \in
                       {d \in {start_date, end_date} : ~Iso8601(d)}
                 /\ result.raised = None

----------------------------------------------------------------------------
(* Every operation of the Store, the date-range tools and the analyzer,    *)
(* in any order (FrameSpec)                                                *)

\* create_dependency calls: two names, with update timestamps, and one call
\* without a name.
FrameArgs ==
    {[name |-> Str(<<"a", "b">>), test_version |-> Str(<<"1">>),
      kwargs |-> [prod_version |-> Str(<<"2">>), test_last_updated |-> Dt(0)]],
     [name |-> Str(<<"A">>), test_version |-> Str(<<"1">>),
      kwargs |-> [production_next_update |-> Dt(1)]],
     [name |-> None, test_version |-> Str(<<"1">>), kwargs |-> [prod_version |-> None]]}

FrameNames == {Str(<<"a", "b">>), Str(<<"A">>)}
FrameQueries == {Str(<<>>), Str(<<"B">>)}
FrameDateTexts == {Str(<<"0">>), Str(<<"1", "T", "0">>), Str(<<"x">>)}

FrameInit ==
    /\ db = <<>>
    /\ clock = 0
    /\ result = Call("none", <<>>, None, None)
    /\ req = [r \in 1..MaxReqs |-> Idle]
    /\ returned = {}
    /\ DEPENDENCIES \in
          {<<>>,
           <<Dep(1, Str(<<"1">>), None, Iso(0), None, Iso(0), None, Iso(0))>>}

FrameNext ==
    \/ Tick
    \/ \E a \in FrameArgs : CreateDependency(a.name, a.test_version, a.kwargs)
    \/ GetAllDependencies
    \/ \E id \in Ids : GetDependencyById(id)
    \/ \E name \in FrameNames : GetDependencyByName(name)
    \/ \E query \in FrameQueries : SearchDependencies(query)
    \/ \E name \in FrameNames : DependencyExists(name)
    \/ \E start \in Instants, end \in Instants : FindUpdatedBetween(start, end)
    \/ \E start \in Instants, end \in Instants : FindNextUpdateBetween(start, end)
    \/ \E start_date \in FrameDateTexts, end_date \in FrameDateTexts :
          FindUpdatedDependencies(start_date, end_date)
    \/ \E start_date \in FrameDateTexts, end_date \in FrameDateTexts :
          FindDependenciesWithPlannedUpdates(start_date, end_date)
    \/ GetDependencyHealthOverview
    \/ \E days_threshold \in 0..MaxThreshold : GetStaleDependencies(days_threshold)

FrameSpec == FrameInit /\ [][FrameNext]_vars

\* Every operation but create_dependency.
ReadOps ==
    {"get_all_dependencies", "get_dependency_by_id", "get_dependency_by_name",
     "search_dependencies", "dependency_exists", "find_updated_between",
     "find_next_update_between", "find_updated_dependencies",
     "find_dependencies_with_planned_updates", "get_dependency_health_overview",
     "get_stale_dependencies"}

\* C15: a step that completes any operation but create_dependency leaves the
\* table and the analyzer's list as they were, every record and every field,
\* whatever it returned; and no step of any operation removes a row or changes
\* a row the table already had (its id included): a step only appends rows.
C15_OnlyCreateChangesRecords ==
    [][/\ result'.op \in ReadOps => (db' = db /\ DEPENDENCIES' = DEPENDENCIES)
       /\ Len(db') >= Len(db)
       /\ \A i \in 1..Len(db) : db'[i] = db[i]
       /\ DEPENDENCIES' = DEPENDENCIES]_vars

\* A date tool has just returned an error result while the table holds two
\* rows, with the ids they were created with, and the analyzer's list a record.
C15_Witness ==
    /\ result.op = "find_updated_dependencies"
    /\ ~IsOk(result.ret.text)
    /\ Len(db) = 2
    /\ db[1].id = Uuid(1) /\ db[2].id = Uuid(2)
    /\ DEPENDENCIES # <<>>

----------------------------------------------------------------------------
(* Claims about the timestamps of created rows (Spec) *)

\* C16: the record a successful create_dependency has just returned has
\* created_at equal to updated_at, also when the clock advanced during the
\* call; and every row of the table has created_at <= updated_at.
C16_CreatedEqualsUpdated ==
    /\ (result.op = "create_dependency" /\ result.raised = None)
           => result.ret.createdAt = result.ret.updatedAt
    /\ \A i \in 1..Len(db) : db[i].created_at.dt <= db[i].updated_at.dt

====
